---- MODULE Spec2Model ----
(***************************************************************************)
(* Permission grammar parser and SQL predicate compiler of                 *)
(* leptos-session-auth: src/permission.rs (READ/WRITE/CREATE grammar with  *)
(* Equipment/Person scopes) and src/auth.rs (two-action grammar with bare  *)
(* integer ids).  Strings are sequences of one-character strings, so that  *)
(* filtering, upper-casing, splitting, slicing, integer parsing and        *)
(* integer formatting are computed character by character as the code      *)
(* computes them.                                                          *)
(***************************************************************************)
EXTENDS Integers, Sequences, FiniteSets

VARIABLES
    perm,        \* the raw permission string handed to Permission::parse
    parsed,      \* outcome of permission.rs Permission::parse(perm), or None
    authParsed,  \* outcome of auth.rs Permission::parse(perm), or None
    self,        \* the Permission value get_query_select is called on, or None
    query,       \* the last compiler call (function, field, returned String), or None
    edits,       \* number of layout rewrites applied to perm since it was parsed
    calls        \* the calls in flight in the request handlers, each with its locals

vars == <<perm, parsed, authParsed, self, query, edits, calls>>

None == [tag |-> "None"]

(***************************************************************************)
(* Characters and string primitives                                        *)
(***************************************************************************)
LowerCase == <<"a","b","c","d","e","f","g","h","i","j","k","l","m",
               "n","o","p","q","r","s","t","u","v","w","x","y","z">>
UpperCase == <<"A","B","C","D","E","F","G","H","I","J","K","L","M",
               "N","O","P","Q","R","S","T","U","V","W","X","Y","Z">>
Digits == <<"0","1","2","3","4","5","6","7","8","9">>

\* char::to_ascii_uppercase: 'a'..='z' to 'A'..='Z', every other char unchanged
AsciiUppercase ==
    [c \in {LowerCase[i] : i \in DOMAIN LowerCase} |->
        UpperCase[CHOOSE i \in DOMAIN LowerCase : LowerCase[i] = c]]
to_ascii_uppercase(c) == IF c \in DOMAIN AsciiUppercase THEN AsciiUppercase[c] ELSE c

\* closing parentheses not stripped
Normalise_keeping_parens(s) ==
    LET kept == SelectSeq(s, LAMBDA c : c # " ")
    IN  [i \in 1..Len(kept) |-> to_ascii_uppercase(kept[i])]

\* perm.chars().filter(|&c| c != ' ' && c != ')').map(to_ascii_uppercase).collect()
Normalise(s) ==
    LET kept == SelectSeq(s, LAMBDA c : c # " " /\ c # ")")
    IN  [i \in 1..Len(kept) |-> to_ascii_uppercase(kept[i])]

HasChar(s, c) == \E i \in 1..Len(s) : s[i] = c

\* Option<usize>::None of str::find
NotFound == [tag |-> "NotFound"]

\* str::find(c): 0-based index of the first occurrence of c
find(s, c) ==
    IF \E i \in 1..Len(s) : s[i] = c
    THEN [tag |-> "Some",
          at |-> (CHOOSE i \in 1..Len(s) : s[i] = c /\ \A j \in 1..(i - 1) : s[j] # c) - 1]
    ELSE NotFound

\* &s[from..to] with 0-based, half-open byte offsets (from <= to <= len)
slice(s, from, to) == SubSeq(s, from + 1, to)

\* str::split(d): the pieces between occurrences of d; "" gives one empty piece
RECURSIVE split(_, _)
split(s, d) ==
    LET i == find(s, d)
    IN  IF i = NotFound THEN <<s>>
        ELSE <<slice(s, 0, i.at)>> \o split(slice(s, i.at + 1, Len(s)), d)

\* str::split_once(d): NotFound, or the text before and after the first d
split_once(s, d) ==
    LET i == find(s, d)
    IN  IF i = NotFound THEN NotFound
        ELSE [tag |-> "Some", before |-> slice(s, 0, i.at),
                              after |-> slice(s, i.at + 1, Len(s))]

I32Max == 2147483647

IsDigit(c) == \E i \in DOMAIN Digits : Digits[i] = c
DigitVal(c) == (CHOOSE i \in DOMAIN Digits : Digits[i] = c) - 1

\* one checked_mul(10) / checked_add or checked_sub step of i32::from_str
RECURSIVE accumulate(_, _, _)
accumulate(ds, acc, neg) ==
    IF ds = <<>> THEN [ok |-> TRUE, val |-> acc]
    ELSE IF ~IsDigit(Head(ds)) THEN [ok |-> FALSE]
    ELSE LET d == DigitVal(Head(ds))
             lim == I32Max \div 10
             fits == IF neg THEN acc > -lim \/ (acc = -lim /\ d <= 8)
                            ELSE acc < lim \/ (acc = lim /\ d <= 7)
         IN  IF ~fits THEN [ok |-> FALSE]
             ELSE accumulate(Tail(ds), IF neg THEN acc * 10 - d ELSE acc * 10 + d, neg)

\* str::parse::<i32>(): optional sign, at least one digit, no overflow
parse_i32(s) ==
    IF s = <<>> THEN [ok |-> FALSE]
    ELSE IF Head(s) \in {"+", "-"}
         THEN IF Len(s) = 1 THEN [ok |-> FALSE]
              ELSE accumulate(Tail(s), 0, Head(s) = "-")
         ELSE accumulate(s, 0, FALSE)

\* Display for i32 ("{id}"): decimal digits, '-' for negatives, no padding
RECURSIVE magnitude_digits(_)
magnitude_digits(n) ==
    \* n <= 0: digits of -n, computed without negating n
    LET d == (10 - (n % 10)) % 10
        rest == (n + d) \div 10
    IN  IF rest = 0 THEN <<Digits[d + 1]>>
        ELSE magnitude_digits(rest) \o <<Digits[d + 1]>>

fmt_i32(n) ==
    IF n < 0 THEN <<"-">> \o magnitude_digits(n) ELSE magnitude_digits(-n)

(***************************************************************************)
(* Data model (permission.rs lines 5-28)                                   *)
(***************************************************************************)
Equipment(id) == [tag |-> "Equipment", id |-> id]
Person(id) == [tag |-> "Person", id |-> id]
Any == [tag |-> "Any"]

ReadAny == [kind |-> "ReadAny"]
WriteAny == [kind |-> "WriteAny"]
Read(scopes) == [kind |-> "Read", scopes |-> scopes]
Write(scopes) == [kind |-> "Write", scopes |-> scopes]
Create(b) == [kind |-> "Create", flag |-> b]

\* Ok(Permissions::ReadWrite { read, write, create })
ReadWrite(read, write, create) ==
    [tag |-> "Ok", read |-> read, write |-> write, create |-> create]
Err(msg) == [tag |-> "Err", msg |-> msg]
\* the call does not return: the thread unwinds out of parse
Panic == [tag |-> "Panic"]

\* Vec::contains
contains(v, x) == \E i \in 1..Len(v) : v[i] = x

(***************************************************************************)
(* Keywords and error strings of the grammar                               *)
(***************************************************************************)
READ == <<"R","E","A","D">>
WRITE == <<"W","R","I","T","E">>
CREATE == <<"C","R","E","A","T","E">>
EQUIPMENT == <<"E","Q","U","I","P","M","E","N","T">>
PERSON == <<"P","E","R","S","O","N">>
TRUE_ == <<"T","R","U","E">>
FALSE_ == <<"F","A","L","S","E">>

MissingScope == "Invalid permission string (No scope found)"
MissingId == "Invalid permission string (Missing id)"
BadId == "Invalid permission string (Could not parse id)"
UnknownScope == "Invalid permission string (Unrecognized scope)"
UnknownAction == "Invalid permission string (Unrecognized action)"
IncompleteSpec == "Invalid permission string (No action/scope found)"

(***************************************************************************)
(* permission.rs Permission::parse                                         *)
(*                                                                         *)
(* The accumulator acc carries read_scopes, write_scopes, create_scope and *)
(* ret: None while the loops run, the Err or Panic that ended them         *)
(* otherwise.                                                              *)
(***************************************************************************)
Acc0 == [read_scopes |-> <<>>, write_scopes |-> <<>>, create_scope |-> None, ret |-> None]

\* the match on action inside one scope-kind arm (lines 61-69, 70-78)
dispatch(acc, action, scope) ==
    IF action = READ THEN [acc EXCEPT !.read_scopes = Append(@, scope)]
    ELSE IF action = WRITE THEN [acc EXCEPT !.write_scopes = Append(@, scope)]
    ELSE [acc EXCEPT !.ret = Err(UnknownAction)]

\* an item taken only if it ends with its first ']'
scope_item_to_the_end(acc, action, scope_str) ==
    LET open_paren == find(scope_str, "[")
        close_paren == find(scope_str, "]")
    IN  IF open_paren = NotFound THEN [acc EXCEPT !.ret = Err(MissingId)]
        ELSE IF close_paren = NotFound THEN [acc EXCEPT !.ret = Err(MissingId)]
        ELSE IF open_paren.at + 1 > close_paren.at THEN [acc EXCEPT !.ret = Panic]
        ELSE IF close_paren.at + 1 # Len(scope_str) THEN [acc EXCEPT !.ret = Err(UnknownScope)]
        ELSE LET id == parse_i32(slice(scope_str, open_paren.at + 1, close_paren.at))
                 kind == slice(scope_str, 0, open_paren.at)
             IN  IF ~id.ok THEN [acc EXCEPT !.ret = Err(BadId)]
                 ELSE IF kind = EQUIPMENT THEN dispatch(acc, action, Equipment(id.val))
                 ELSE IF kind = PERSON THEN dispatch(acc, action, Person(id.val))
                 ELSE [acc EXCEPT !.ret = Err(UnknownScope)]

\* the item `*` taken as the wildcard scope wherever it stands in a list
scope_item_with_wildcard(acc, action, scope_str) ==
    LET open_paren == find(scope_str, "[")
        close_paren == find(scope_str, "]")
    IN  IF scope_str = <<"*">> THEN dispatch(acc, action, Any)
        ELSE IF open_paren = NotFound THEN [acc EXCEPT !.ret = Err(MissingId)]
        ELSE IF close_paren = NotFound THEN [acc EXCEPT !.ret = Err(MissingId)]
        ELSE IF open_paren.at + 1 > close_paren.at THEN [acc EXCEPT !.ret = Panic]
        ELSE LET id == parse_i32(slice(scope_str, open_paren.at + 1, close_paren.at))
                 kind == slice(scope_str, 0, open_paren.at)
             IN  IF ~id.ok THEN [acc EXCEPT !.ret = Err(BadId)]
                 ELSE IF kind = EQUIPMENT THEN dispatch(acc, action, Equipment(id.val))
                 ELSE IF kind = PERSON THEN dispatch(acc, action, Person(id.val))
                 ELSE [acc EXCEPT !.ret = Err(UnknownScope)]

\* body of `for scope_str in &scope` (lines 51-80)
scope_item(acc, action, scope_str) ==
    LET open_paren == find(scope_str, "[")
        close_paren == find(scope_str, "]")
    IN  IF open_paren = NotFound THEN [acc EXCEPT !.ret = Err(MissingId)]
        ELSE IF close_paren = NotFound THEN [acc EXCEPT !.ret = Err(MissingId)]
        ELSE IF open_paren.at + 1 > close_paren.at
             THEN \* &scope_str[open_paren + 1..close_paren] with start > end
                  [acc EXCEPT !.ret = Panic]
        ELSE LET id_str == slice(scope_str, open_paren.at + 1, close_paren.at)
                 id == parse_i32(id_str)
                 kind == slice(scope_str, 0, open_paren.at)
             IN  IF ~id.ok THEN [acc EXCEPT !.ret = Err(BadId)]
                 ELSE IF kind = EQUIPMENT THEN dispatch(acc, action, Equipment(id.val))
                 ELSE IF kind = PERSON THEN dispatch(acc, action, Person(id.val))
                 ELSE [acc EXCEPT !.ret = Err(UnknownScope)]

\* `for scope_str in &scope`, left to right, leaving at the first `?`/return
RECURSIVE scope_loop(_, _, _)
scope_loop(acc, action, scope) ==
    IF scope = <<>> \/ acc.ret # None THEN acc
    ELSE scope_loop(scope_item(acc, action, Head(scope)), action, Tail(scope))

\* body of `for perm in perms.split("|")`: the match of lines 40-83
clause(acc, cleaned_perm) ==
    IF cleaned_perm = READ \o <<"(", "*">>
        THEN [acc EXCEPT !.read_scopes = Append(@, Any)]
    ELSE IF cleaned_perm = WRITE \o <<"(", "*">>
        THEN [acc EXCEPT !.write_scopes = Append(@, Any)]
    ELSE IF cleaned_perm = CREATE \o <<"(">> \o TRUE_
        THEN [acc EXCEPT !.create_scope = [tag |-> "Some", val |-> TRUE]]
    ELSE IF cleaned_perm = CREATE \o <<"(">> \o FALSE_
        THEN [acc EXCEPT !.create_scope = [tag |-> "Some", val |-> FALSE]]
    ELSE LET parts == split_once(cleaned_perm, "(")
         IN  IF parts = NotFound THEN [acc EXCEPT !.ret = Err(MissingScope)]
             ELSE scope_loop(acc, parts.before, split(parts.after, ","))

\* `for perm in perms.split("|")` (lines 39-84)
RECURSIVE clause_loop(_, _)
clause_loop(acc, clauses) ==
    IF clauses = <<>> \/ acc.ret # None THEN acc
    ELSE clause_loop(clause(acc, Head(clauses)), Tail(clauses))

\* the create flag not required
incomplete_without_create(read_scopes, write_scopes, create_scope) ==
    read_scopes = <<>> \/ write_scopes = <<>>

\* the condition of line 86
incomplete(read_scopes, write_scopes, create_scope) ==
    read_scopes = <<>> \/ write_scopes = <<>> \/ create_scope = None

\* the repair loop left out: the read list stays as the READ clauses gave it
make_readable_skipped(read_scopes, write_scopes) == read_scopes

\* every write scope missing from the read list as the READ clauses gave it is
\* pushed, a repeated one each time it occurs
make_readable_each(read_scopes, write_scopes) ==
    read_scopes \o SelectSeq(write_scopes, LAMBDA w : ~contains(read_scopes, w))

\* lines 97-101: push every write scope the read list does not contain yet
RECURSIVE make_readable(_, _)
make_readable(read_scopes, write_scopes) ==
    IF write_scopes = <<>> THEN read_scopes
    ELSE make_readable(
            IF ~contains(read_scopes, Head(write_scopes))
            THEN Append(read_scopes, Head(write_scopes))
            ELSE read_scopes,
            Tail(write_scopes))

\* the wildcard write not propagated to the read permission
read_write_unpropagated(read_scopes, write_scopes) ==
    IF contains(write_scopes, Any)
        THEN <<IF contains(read_scopes, Any) THEN ReadAny ELSE Read(read_scopes), WriteAny>>
    ELSE IF contains(read_scopes, Any) THEN <<ReadAny, Write(write_scopes)>>
    ELSE <<Read(make_readable(read_scopes, write_scopes)), Write(write_scopes)>>

\* the write list given back without its repeated entries
read_write_deduplicated(read_scopes, write_scopes) ==
    LET ws == make_readable(<<>>, write_scopes)
    IN  IF contains(write_scopes, Any) THEN <<ReadAny, WriteAny>>
        ELSE IF contains(read_scopes, Any) THEN <<ReadAny, Write(ws)>>
        ELSE <<Read(make_readable(read_scopes, write_scopes)), Write(ws)>>

\* lines 89-103: the (read, write) pair of the result
read_write(read_scopes, write_scopes) ==
    IF contains(write_scopes, Any) THEN <<ReadAny, WriteAny>>
    ELSE IF contains(read_scopes, Any) THEN <<ReadAny, Write(write_scopes)>>
    ELSE <<Read(make_readable(read_scopes, write_scopes)), Write(write_scopes)>>

\* lines 86-110: what parse returns once the clause loop has ended
parse_return(acc) ==
    IF acc.ret # None THEN acc.ret
    ELSE IF incomplete(acc.read_scopes, acc.write_scopes, acc.create_scope)
         THEN Err(IncompleteSpec)
    ELSE LET rw == read_write(acc.read_scopes, acc.write_scopes)
         IN  IF acc.create_scope = None
             THEN Panic  \* create_scope.unwrap() on None (line 108)
             ELSE ReadWrite(rw[1], rw[2], Create(acc.create_scope.val))

\* Permission::parse (lines 32-111)
parse(raw) ==
    LET perms == Normalise(raw)
    IN  parse_return(clause_loop(Acc0, split(perms, "|")))

(***************************************************************************)
(* auth.rs Permission::parse: READ/WRITE clauses over bare integer ids,    *)
(* the wildcard kept in the id lists as the id -1                          *)
(***************************************************************************)
AuthInvalid == "Invalid permission string"
WildcardId == -1

\* Ok(Permissions::ReadWrite { read, write }) of auth.rs
AuthReadWrite(read, write) == [tag |-> "Ok", read |-> read, write |-> write]

AuthAcc0 == [read_ids |-> <<>>, write_ids |-> <<>>, ret |-> None]

\* `for item in &scope` (lines 34-39): the ids, or ok = FALSE at the first bad item
RECURSIVE auth_ids(_, _)
auth_ids(ids, scope) ==
    IF scope = <<>> THEN [ok |-> TRUE, ids |-> ids]
    ELSE LET id == parse_i32(Head(scope))
         IN  IF ~id.ok THEN [ok |-> FALSE]
             ELSE auth_ids(Append(ids, id.val), Tail(scope))

\* a READ / WRITE clause stores its ids (lines 41-49)
auth_store(acc, action, ids) ==
    IF action = READ THEN [acc EXCEPT !.read_ids = ids]
    ELSE IF action = WRITE THEN [acc EXCEPT !.write_ids = ids]
    ELSE [acc EXCEPT !.ret = Err(AuthInvalid)]

\* body of `for perm in perms.split("|")` (lines 25-51)
auth_clause(acc, cleaned_perm) ==
    IF cleaned_perm = READ \o <<"(", "*">>
        THEN [acc EXCEPT !.read_ids = Append(@, WildcardId)]
    ELSE IF cleaned_perm = WRITE \o <<"(", "*">>
        THEN [acc EXCEPT !.write_ids = Append(@, WildcardId)]
    ELSE LET parts == split_once(cleaned_perm, "(")
         IN  IF parts = NotFound THEN [acc EXCEPT !.ret = Err(AuthInvalid)]
             ELSE LET ids == auth_ids(<<>>, split(parts.after, ","))
                  IN  IF ~ids.ok THEN [acc EXCEPT !.ret = Err(AuthInvalid)]
                      ELSE auth_store(acc, parts.before, ids.ids)

RECURSIVE auth_clause_loop(_, _)
auth_clause_loop(acc, clauses) ==
    IF clauses = <<>> \/ acc.ret # None THEN acc
    ELSE auth_clause_loop(auth_clause(acc, Head(clauses)), Tail(clauses))

\* lines 57-71: the (read, write) pair of the result
auth_read_write(read_ids, write_ids) ==
    IF contains(write_ids, WildcardId) THEN <<ReadAny, WriteAny>>
    ELSE IF contains(read_ids, WildcardId) THEN <<ReadAny, Write(write_ids)>>
    ELSE <<Read(make_readable(read_ids, write_ids)), Write(write_ids)>>

\* auth.rs Permission::parse (lines 18-75)
auth_parse(raw) ==
    LET perms == Normalise(raw)
        acc == auth_clause_loop(AuthAcc0, split(perms, "|"))
    IN  IF acc.ret # None THEN acc.ret
        ELSE IF acc.read_ids = <<>> \/ acc.write_ids = <<>> THEN Err(AuthInvalid)
        ELSE LET rw == auth_read_write(acc.read_ids, acc.write_ids)
             IN  AuthReadWrite(rw[1], rw[2])

(***************************************************************************)
(* permission.rs get_query_select / get_query_select_without_where         *)
(***************************************************************************)
ID == <<"i","d">>
EQUIPMENT_COL == <<"e","q","u","i","p","m","e","n","t">>
PERSON_COL == <<"p","e","r","s","o","n">>
WHERE == <<"W","H","E","R","E">>
AND == <<"A","N","D">>
IN_OPEN == <<" ","I","N"," ","(">>

\* the field passed through as the caller gave it
field_unsanitized(field) == field

\* lines 114-118
field_sanitized(field) ==
    IF field = ID THEN ID
    ELSE IF field = EQUIPMENT_COL THEN EQUIPMENT_COL
    ELSE ID

\* `if !ids.is_empty() { ids.push(',') }; write!(ids, "{id}")` (lines 130-133, 136-139)
push_id(ids, id) ==
    (IF ids # <<>> THEN ids \o <<",">> ELSE ids) \o fmt_i32(id)

\* the Person entries skipped like Any
RECURSIVE collect_ids_equipment_only(_, _, _)
collect_ids_equipment_only(scope, equipment_ids, person_ids) ==
    IF scope = <<>> THEN <<equipment_ids, person_ids>>
    ELSE IF Head(scope).tag = "Equipment"
        THEN collect_ids_equipment_only(Tail(scope), push_id(equipment_ids, Head(scope).id),
                                        person_ids)
    ELSE collect_ids_equipment_only(Tail(scope), equipment_ids, person_ids)

\* `for item in scope.iter()` (lines 127-143): <<equipment_ids, person_ids>>
RECURSIVE collect_ids(_, _, _)
collect_ids(scope, equipment_ids, person_ids) ==
    IF scope = <<>> THEN <<equipment_ids, person_ids>>
    ELSE LET it == Head(scope)
         IN  IF it.tag = "Equipment"
                 THEN collect_ids(Tail(scope), push_id(equipment_ids, it.id), person_ids)
             ELSE IF it.tag = "Person"
                 THEN collect_ids(Tail(scope), equipment_ids, push_id(person_ids, it.id))
             ELSE collect_ids(Tail(scope), equipment_ids, person_ids)

\* the person group written before the caller-field group
write_clauses_person_first(column, equipment_ids, person_ids) ==
    LET q1 == IF equipment_ids # <<>> \/ person_ids # <<>>
              THEN <<" ">> \o WHERE \o <<" ">> ELSE <<>>
        q2 == IF person_ids # <<>>
              THEN q1 \o PERSON_COL \o IN_OPEN \o person_ids \o <<")">> ELSE q1
        q3 == IF equipment_ids # <<>>
              THEN (IF person_ids # <<>> THEN q2 \o <<" ">> \o AND \o <<" ">> ELSE q2)
                   \o column \o IN_OPEN \o equipment_ids \o <<")">>
              ELSE q2
    IN  q3

\* lines 145-158: the fragment written for the two id lists
write_clauses(column, equipment_ids, person_ids) ==
    LET q0 == <<>>
        q1 == IF equipment_ids # <<>> \/ person_ids # <<>>
              THEN q0 \o <<" ">> \o WHERE \o <<" ">> ELSE q0
        q2 == IF equipment_ids # <<>>
              THEN q1 \o column \o IN_OPEN \o equipment_ids \o <<")">> ELSE q1
        first_clause == IF equipment_ids # <<>> THEN FALSE ELSE TRUE
        q3 == IF person_ids # <<>>
              THEN (IF ~first_clause THEN q2 \o <<" ">> \o AND \o <<" ">> ELSE q2)
                   \o PERSON_COL \o IN_OPEN \o person_ids \o <<")">>
              ELSE q2
    IN  q3

\* Write lists compiled like Read lists
get_query_select_with_write(p, field) ==
    IF p.kind \in {"Read", "Write"}
    THEN LET ids == collect_ids(p.scopes, <<>>, <<>>)
         IN  write_clauses(field_sanitized(field), ids[1], ids[2])
    ELSE <<>>

\* the caller's field written into the fragment as the column name
get_query_select_field_formatted(p, field) ==
    IF p.kind = "Read"
    THEN LET ids == collect_ids(p.scopes, <<>>, <<>>)
         IN  write_clauses(field, ids[1], ids[2])
    ELSE <<>>

\* Permission::get_query_select (lines 113-163)
get_query_select(p, field) ==
    IF p.kind = "Read"
    THEN LET ids == collect_ids(p.scopes, <<>>, <<>>)
         IN  write_clauses(field_sanitized(field), ids[1], ids[2])
    ELSE <<>>

\* str::starts_with
starts_with(s, pat) == Len(s) >= Len(pat) /\ SubSeq(s, 1, Len(pat)) = pat

\* str::replace(from, to): every non-overlapping match, left to right
RECURSIVE replace(_, _, _)
replace(s, from, to) ==
    IF s = <<>> THEN <<>>
    ELSE IF starts_with(s, from) THEN to \o replace(SubSeq(s, Len(from) + 1, Len(s)), from, to)
    ELSE <<Head(s)>> \o replace(Tail(s), from, to)

\* the fragment returned with its introducer left in place
get_query_select_with_where(p, field) == get_query_select(p, field)

\* Permission::get_query_select_without_where (lines 165-167)
get_query_select_without_where(p, field) ==
    replace(get_query_select(p, field), WHERE, AND)

(***************************************************************************)
(* Inputs: permission strings as they are stored in the permission columns *)
(* (upper-case actions, lower-case scope kinds, closing parentheses)       *)
(***************************************************************************)
MaxClauses == 4
MaxItems == 2
MaxScopes == 4
MaxEdits == 2

lower(s) == [i \in 1..Len(s) |->
                IF \E k \in DOMAIN UpperCase : UpperCase[k] = s[i]
                THEN LowerCase[CHOOSE k \in DOMAIN UpperCase : UpperCase[k] = s[i]]
                ELSE s[i]]

RECURSIVE join(_, _)
join(pieces, sep) ==
    IF pieces = <<>> THEN <<>>
    ELSE IF Len(pieces) = 1 THEN pieces[1]
    ELSE pieces[1] \o sep \o join(Tail(pieces), sep)

item(kind, id) == lower(kind) \o <<"[">> \o id \o <<"]">>
clauseText(action, items) == action \o <<"(">> \o join(items, <<",">>) \o <<")">>

E1 == item(EQUIPMENT, <<"1">>)
E2 == item(EQUIPMENT, <<"2">>)
P1 == item(PERSON, <<"1">>)
Star == <<"*">>
Reversed == lower(EQUIPMENT) \o <<"]", "1", "[">>
FOO == <<"F","O","O">>

\* whole strings: up to MaxClauses clauses joined by '|'
SampleClauses ==
    {clauseText(READ, l) : l \in {<<Star>>, <<E1>>, <<P1, E1>>}}
    \cup {clauseText(WRITE, l) : l \in {<<Star>>, <<E1>>, <<E2, P1, E2>>}}
    \cup {clauseText(CREATE, <<lower(FALSE_)>>)}
    \cup {READ, clauseText(WRITE, <<item(<<"x">>, <<"1">>)>>), clauseText(READ, <<Reversed>>)}

IsClauseInput(s) == \E k \in 0..MaxClauses : \E cs \in [1..k -> SampleClauses] : s = join(cs, <<"|">>)

\* one clause of up to MaxItems scope items, well-formed and malformed, alone or
\* followed by the write and create clauses that complete it
SampleItems ==
    {E1, item(PERSON, <<"-","1","2">>), Star, <<>>, Reversed,
     item(<<"x">>, <<"1">>), item(EQUIPMENT, <<>>), item(<<"x">>, <<"y">>),
     lower(EQUIPMENT), lower(EQUIPMENT) \o <<"[", "1">>, <<"1", "]">>,
     E1 \o <<"x","y","z">>, item(PERSON, <<"2">>) \o <<"[","3","]">>,
     item(EQUIPMENT, <<"2","1","4","7","4","8","3","6","4","8">>)}

Completion == <<"|">> \o clauseText(WRITE, <<P1>>) \o <<"|">> \o clauseText(CREATE, <<TRUE_>>)

IsItemInput(s) ==
    \E a \in {READ, WRITE, FOO, CREATE} : \E k \in 1..MaxItems : \E l \in [1..k -> SampleItems] :
        \E rest \in {<<>>, Completion} : s = clauseText(a, l) \o rest

\* strings of the two-action grammar of auth.rs
AuthSampleClauses ==
    {clauseText(READ, l) : l \in {<<Star>>, <<<<"1">>>>, <<<<"2">>, <<"1">>>>}}
    \cup {clauseText(WRITE, l) : l \in {<<Star>>, <<<<"1">>>>, <<<<"3">>, <<"3">>>>, <<<<"-", "1">>>>}}
    \cup {clauseText(FOO, <<<<"1">>>>)}

IsAuthInput(s) ==
    \E k \in 0..MaxClauses : \E cs \in [1..k -> AuthSampleClauses] : s = join(cs, <<"|">>)

\* Permission values the compiler can be handed
SampleIds == {-12, 0, 7}
Scopes == {Equipment(i) : i \in SampleIds} \cup {Person(i) : i \in SampleIds} \cup {Any}
IsPermissionValue(p) ==
    \/ p \in {ReadAny, WriteAny, Create(TRUE), Create(FALSE)}
    \/ \E k \in 0..MaxScopes : \E l \in [1..k -> Scopes] : p = Read(l)
    \/ \E k \in 0..1 : \E l \in [1..k -> Scopes] : p = Write(l)

Fields == {ID, EQUIPMENT_COL, PERSON_COL, <<"f","o","o">>}

(***************************************************************************)
(* The state machine                                                       *)
(***************************************************************************)
Call(fn, f, ret) == [tag |-> "Some", fn |-> fn, field |-> f, ret |-> ret]

Init ==
    /\ IsClauseInput(perm) \/ IsItemInput(perm) \/ IsAuthInput(perm)
    /\ parsed = None
    /\ authParsed = None
    /\ self = None
    /\ query = None
    /\ edits = 0
    /\ calls = <<>>

\* permission.rs Permission::parse(perm)
Parse ==
    /\ parsed = None /\ authParsed = None
    /\ parsed' = parse(perm)
    /\ UNCHANGED <<calls, perm, authParsed, self, query, edits>>

\* auth.rs Permission::parse(perm)
AuthParse ==
    /\ parsed = None /\ authParsed = None
    /\ authParsed' = auth_parse(perm)
    /\ UNCHANGED <<calls, perm, parsed, self, query, edits>>

\* todo.rs get_todos: the read permission of the parsed set filters the todos by "id"
GetTodos ==
    /\ parsed.tag = "Ok"
    /\ query = None
    /\ self' = parsed.read
    /\ query' = Call("get_query_select", ID, get_query_select(parsed.read, ID))
    /\ UNCHANGED <<calls, perm, parsed, authParsed, edits>>

Next == Parse \/ AuthParse \/ GetTodos

Spec == Init /\ [][Next]_vars

(***************************************************************************)
(* The compiler on any Permission value and any field                      *)
(***************************************************************************)
InitQuery ==
    /\ perm = <<>>
    /\ parsed = None
    /\ authParsed = None
    /\ IsPermissionValue(self)
    /\ query = None
    /\ edits = 0
    /\ calls = <<>>

GetQuerySelect(f) ==
    /\ self # None
    /\ query = None
    /\ query' = Call("get_query_select", f, get_query_select(self, f))
    /\ UNCHANGED <<calls, perm, parsed, authParsed, self, edits>>

GetQuerySelectWithoutWhere(f) ==
    /\ self # None
    /\ query = None
    /\ query' = Call("get_query_select_without_where", f,
                     get_query_select_without_where(self, f))
    /\ UNCHANGED <<calls, perm, parsed, authParsed, self, edits>>

NextQuery ==
    \/ \E f \in Fields : GetQuerySelect(f)
    \/ \E f \in Fields : GetQuerySelectWithoutWhere(f)

SpecQuery == InitQuery /\ [][NextQuery]_vars

(***************************************************************************)
(* The same permission written with another layout: spaces and closing     *)
(* parentheses put in or taken out, letters in the other case              *)
(***************************************************************************)
LayoutBases ==
    {clauseText(lower(READ), <<Star>>) \o <<"|">> \o clauseText(WRITE, <<Star>>)
        \o <<"|">> \o clauseText(CREATE, <<lower(TRUE_)>>),
     clauseText(lower(READ), <<item(PERSON, <<"x">>)>>),
     clauseText(READ, <<<<"1">>>>) \o <<"|">> \o clauseText(WRITE, <<<<"2">>>>)}

InitLayout ==
    /\ perm \in LayoutBases
    /\ parsed = None
    /\ authParsed = None
    /\ self = None
    /\ query = None
    /\ edits = 0
    /\ calls = <<>>

IsLetter(c) == HasChar(LowerCase, c) \/ HasChar(UpperCase, c)
other_case(c) == IF HasChar(LowerCase, c) THEN to_ascii_uppercase(c) ELSE lower(<<c>>)[1]

InsertLayout(i, c) ==
    /\ parsed # None \/ authParsed # None
    /\ edits < MaxEdits
    /\ perm' = SubSeq(perm, 1, i) \o <<c>> \o SubSeq(perm, i + 1, Len(perm))
    /\ edits' = edits + 1
    /\ UNCHANGED <<calls, parsed, authParsed, self, query>>

DeleteLayout(i) ==
    /\ parsed # None \/ authParsed # None
    /\ edits < MaxEdits
    /\ perm[i] \in {" ", ")"}
    /\ perm' = SubSeq(perm, 1, i - 1) \o SubSeq(perm, i + 1, Len(perm))
    /\ edits' = edits + 1
    /\ UNCHANGED <<calls, parsed, authParsed, self, query>>

ChangeCase(i) ==
    /\ parsed # None \/ authParsed # None
    /\ edits < MaxEdits
    /\ IsLetter(perm[i])
    /\ perm' = [perm EXCEPT ![i] = other_case(@)]
    /\ edits' = edits + 1
    /\ UNCHANGED <<calls, parsed, authParsed, self, query>>

NextLayout ==
    \/ Parse
    \/ AuthParse
    \/ \E i \in 0..Len(perm) : \E c \in {" ", ")"} : InsertLayout(i, c)
    \/ \E i \in 1..Len(perm) : DeleteLayout(i)
    \/ \E i \in 1..Len(perm) : ChangeCase(i)

SpecLayout == InitLayout /\ [][NextLayout]_vars

(***************************************************************************)
(* Calls in flight at the same time.  parse and get_query_select take      *)
(* `String` / `&self` and keep everything they write in `let mut` locals   *)
(* (permission.rs lines 35-37 and 124-125), so every call has a frame of   *)
(* its own: fn, its input, what is left of the sequence its loop walks,    *)
(* its accumulators, and ret once it has returned.  A step is one loop     *)
(* iteration or the code after the loop, of any call.                      *)
(***************************************************************************)
MaxCalls == 2

\* the frame of Permission::parse(raw) at its loop head (lines 33-39)
parse_entry(raw) ==
    [fn |-> "parse", raw |-> raw, perms |-> split(Normalise(raw), "|"), acc |-> Acc0,
     ret |-> None]

\* the frame of p.get_query_select(field) at its loop head (lines 114-127); the
\* variants other than Read have no loop to walk
select_entry(p, field) ==
    [fn |-> "get_query_select", self |-> p, field |-> field,
     scope |-> IF p.kind = "Read" THEN p.scopes ELSE <<>>,
     acc |-> [equipment_ids |-> <<>>, person_ids |-> <<>>], ret |-> None]

CallEntries ==
    {parse_entry(raw) : raw \in
        {clauseText(READ, <<E1>>) \o Completion,
         clauseText(READ, <<Star>>) \o <<"|">> \o clauseText(WRITE, <<E2, P1>>)
            \o <<"|">> \o clauseText(CREATE, <<lower(FALSE_)>>),
         clauseText(WRITE, <<E2>>) \o <<"|">> \o clauseText(READ, <<item(<<"x">>, <<"1">>)>>),
         clauseText(READ, <<P1>>)}}
    \cup {select_entry(p, f) : p \in {Read(<<Equipment(7), Any, Person(0)>>),
                                      Read(<<Person(-12), Person(-12)>>), WriteAny},
                               f \in {ID, EQUIPMENT_COL}}

InitCalls ==
    /\ perm = <<>>
    /\ parsed = None
    /\ authParsed = None
    /\ self = None
    /\ query = None
    /\ edits = 0
    /\ \E n \in 1..MaxCalls : calls \in [1..n -> CallEntries]

\* the accumulators one operation keeps in a single place for all its calls
locals_shared(cs, i) == cs[CHOOSE j \in 1..Len(cs) : cs[j].fn = cs[i].fn].acc

\* the `let mut` accumulators of call i (permission.rs lines 35-37, 124-125)
locals(cs, i) == cs[i].acc

\* one iteration of `for perm in perms.split("|")`, returning early on an error
ParseClause(i) ==
    /\ calls[i].fn = "parse" /\ calls[i].ret = None /\ calls[i].perms # <<>>
    /\ LET acc == clause(locals(calls, i), Head(calls[i].perms))
       IN  calls' = [calls EXCEPT ![i].acc = acc, ![i].perms = Tail(@),
                                  ![i].ret = IF acc.ret # None THEN acc.ret ELSE None]
    /\ UNCHANGED <<perm, parsed, authParsed, self, query, edits>>

\* lines 86-110 after the loop
ParseReturn(i) ==
    /\ calls[i].fn = "parse" /\ calls[i].ret = None /\ calls[i].perms = <<>>
    /\ calls' = [calls EXCEPT ![i].ret = parse_return(locals(calls, i))]
    /\ UNCHANGED <<perm, parsed, authParsed, self, query, edits>>

\* one iteration of `for item in scope.iter()`
SelectItem(i) ==
    /\ calls[i].fn = "get_query_select" /\ calls[i].ret = None /\ calls[i].scope # <<>>
    /\ LET acc == locals(calls, i)
           ids == collect_ids(<<Head(calls[i].scope)>>, acc.equipment_ids, acc.person_ids)
       IN  calls' = [calls EXCEPT ![i].acc = [equipment_ids |-> ids[1], person_ids |-> ids[2]],
                                  ![i].scope = Tail(@)]
    /\ UNCHANGED <<perm, parsed, authParsed, self, query, edits>>

\* lines 145-162 after the loop, or the empty String of the other variants
SelectReturn(i) ==
    /\ calls[i].fn = "get_query_select" /\ calls[i].ret = None /\ calls[i].scope = <<>>
    /\ LET acc == locals(calls, i)
       IN  calls' = [calls EXCEPT ![i].ret =
                        [val |-> IF calls[i].self.kind = "Read"
                                 THEN write_clauses(field_sanitized(calls[i].field),
                                                    acc.equipment_ids, acc.person_ids)
                                 ELSE <<>>]]
    /\ UNCHANGED <<perm, parsed, authParsed, self, query, edits>>

NextCalls ==
    \E i \in 1..Len(calls) :
        ParseClause(i) \/ ParseReturn(i) \/ SelectItem(i) \/ SelectReturn(i)

SpecCalls == InitCalls /\ [][NextCalls]_vars

(***************************************************************************)
(* What the claims say of a clause, written from the grammar's rules       *)
(***************************************************************************)
Clauses(s) == split(Normalise(s), "|")
Literals == {READ \o <<"(", "*">>, WRITE \o <<"(", "*">>,
             CREATE \o <<"(">> \o TRUE_, CREATE \o <<"(">> \o FALSE_}
FirstAt(s, c) == CHOOSE i \in 1..Len(s) : s[i] = c /\ \A j \in 1..(i - 1) : s[j] # c

\* the error the classification order gives one scope item, or "ok"
ItemError(action, it) ==
    IF ~HasChar(it, "[") \/ ~HasChar(it, "]") THEN MissingId
    ELSE LET o == FirstAt(it, "[")
             c == FirstAt(it, "]")
             contents == IF o < c THEN SubSeq(it, o + 1, c - 1) ELSE <<>>
         IN  IF ~parse_i32(contents).ok THEN BadId
             ELSE IF SubSeq(it, 1, o - 1) \notin {EQUIPMENT, PERSON} THEN UnknownScope
             ELSE IF action \notin {READ, WRITE} THEN UnknownAction
             ELSE "ok"

\* the error of the first failing item of a clause, or "ok"
ClauseError(c) ==
    IF c \in Literals THEN "ok"
    ELSE IF ~HasChar(c, "(") THEN MissingScope
    ELSE LET o == FirstAt(c, "(")
             action == SubSeq(c, 1, o - 1)
             items == split(SubSeq(c, o + 1, Len(c)), ",")
             failing == {i \in 1..Len(items) : ItemError(action, items[i]) # "ok"}
         IN  IF failing = {} THEN "ok"
             ELSE ItemError(action, items[CHOOSE i \in failing : \A j \in failing : i <= j])

\* the malformed clauses of a clause list, and the error of the first of them
Malformed(cs) == {i \in 1..Len(cs) : ClauseError(cs[i]) # "ok"}
FirstError(cs) ==
    LET bad == Malformed(cs)
    IN  ClauseError(cs[CHOOSE i \in bad : \A j \in bad : i <= j])

Supplies(cs, action) == \E i \in 1..Len(cs) : starts_with(cs[i], action \o <<"(">>)
ReadClauses(cs) == {i \in 1..Len(cs) : starts_with(cs[i], READ \o <<"(">>)}

(***************************************************************************)
(* Claims                                                                  *)
(***************************************************************************)

\* C1: whenever either parser succeeds with read = Read(rs) and write = Write(ws),
\* every element of ws is also an element of rs.
WriteScopeClosure ==
    /\ (parsed.tag = "Ok" /\ parsed.read.kind = "Read" /\ parsed.write.kind = "Write")
        => \A i \in 1..Len(parsed.write.scopes) :
              \E j \in 1..Len(parsed.read.scopes) :
                  parsed.read.scopes[j] = parsed.write.scopes[i]
    /\ (authParsed.tag = "Ok" /\ authParsed.read.kind = "Read" /\ authParsed.write.kind = "Write")
        => \A i \in 1..Len(authParsed.write.scopes) :
              \E j \in 1..Len(authParsed.read.scopes) :
                  authParsed.read.scopes[j] = authParsed.write.scopes[i]

\* a successful parse of several READ and WRITE clauses in which a written scope
\* was named by no READ clause
WriteScopeClosureWitness ==
    /\ parsed.tag = "Ok" /\ parsed.read.kind = "Read"
    /\ Cardinality(ReadClauses(Clauses(perm))) >= 2
    /\ \E i \in 1..Len(parsed.write.scopes) :
          ~contains(clause_loop(Acc0, Clauses(perm)).read_scopes, parsed.write.scopes[i])

\* C2: a successful parse of an input with a clause that normalises to WRITE(*
\* yields ReadAny and WriteAny; in every successful result WriteAny implies ReadAny.
AnyPropagation ==
    parsed.tag = "Ok" =>
        /\ contains(Clauses(perm), WRITE \o <<"(", "*">>)
            => (parsed.read = ReadAny /\ parsed.write = WriteAny)
        /\ parsed.write = WriteAny => parsed.read = ReadAny

\* WRITE(* next to a restricted READ clause and a restricted WRITE clause, no READ(*
AnyPropagationWitness ==
    /\ parsed.tag = "Ok"
    /\ contains(Clauses(perm), WRITE \o <<"(", "*">>)
    /\ ~contains(Clauses(perm), READ \o <<"(", "*">>)
    /\ \E i \in 1..Len(Clauses(perm)) :
          /\ starts_with(Clauses(perm)[i], WRITE \o <<"(">>)
          /\ Clauses(perm)[i] # WRITE \o <<"(", "*">>
    /\ parsed.read = ReadAny /\ parsed.write = WriteAny

\* C3: when no clause is malformed, the parse succeeds exactly if a read scope, a
\* write scope and a create flag were supplied, and fails with the incomplete-spec
\* error otherwise.
RequiredClauses ==
    parsed # None =>
        LET cs == Clauses(perm)
            complete == Supplies(cs, READ) /\ Supplies(cs, WRITE) /\ Supplies(cs, CREATE)
        IN  Malformed(cs) = {} =>
                /\ parsed.tag = "Ok" <=> complete
                /\ ~complete => parsed = Err(IncompleteSpec)

\* read and write scopes supplied, the create flag missing: incomplete
RequiredClausesWitness ==
    /\ parsed = Err(IncompleteSpec)
    /\ Malformed(Clauses(perm)) = {}
    /\ Supplies(Clauses(perm), READ) /\ Supplies(Clauses(perm), WRITE)
    /\ ~Supplies(Clauses(perm), CREATE)

\* C4: every call of the extended parser returns Ok or one of the six errors; it
\* never panics.
ParseTotal ==
    parsed # None =>
        \/ parsed.tag = "Ok"
        \/ /\ parsed.tag = "Err"
           /\ parsed.msg \in {MissingScope, MissingId, BadId, UnknownScope,
                              UnknownAction, IncompleteSpec}

\* C5: if any clause is malformed the parse returns the error of the first failing
\* scope item, in clause and item order, whatever the other clauses are.
NoPartialResult ==
    parsed # None =>
        LET cs == Clauses(perm)
        IN  Malformed(cs) # {} => parsed = Err(FirstError(cs))

\* C6: a clause that is not a literal fails with MissingScope without '(', else with
\* the error of its first failing item, classified MissingId, BadId, UnknownScope,
\* UnknownAction in that order.
ClassificationOrder ==
    parsed # None =>
        LET expected == ClauseError(Clauses(perm)[1])
        IN  expected # "ok" => parsed = Err(expected)

\* C7: strings that differ only in spaces, closing parentheses and letter case
\* parse to the identical outcome; parsing a string and parsing its normal form
\* agree, and normalising twice changes nothing.
LayoutInvariance ==
    /\ parsed # None => (parse(perm) = parsed /\ parse(Normalise(perm)) = parsed)
    /\ authParsed # None => (auth_parse(perm) = authParsed /\ auth_parse(Normalise(perm)) = authParsed)
    /\ Normalise(Normalise(perm)) = Normalise(perm)

\* a permission parsed successfully, then rewritten twice, now holding a space and
\* fewer closing parentheses than clauses
LayoutInvarianceWitness ==
    /\ parsed.tag = "Ok"
    /\ edits >= 2
    /\ HasChar(perm, " ")
    /\ Len(SelectSeq(perm, LAMBDA c : c = ")")) < Len(Clauses(perm))

(***************************************************************************)
(* What the claims say of a fragment                                       *)
(***************************************************************************)
IdsOf(scopes, tag) ==
    LET sel == SelectSeq(scopes, LAMBDA x : x.tag = tag)
    IN  [i \in 1..Len(sel) |-> sel[i].id]
Group(column, ids) ==
    column \o IN_OPEN \o join([i \in 1..Len(ids) |-> fmt_i32(ids[i])], <<",">>) \o <<")">>
\* the non-empty groups, the Equipment ids under equipmentColumn, joined by " AND "
Fragment(equipmentColumn, scopes) ==
    LET groups ==
            (IF IdsOf(scopes, "Equipment") # <<>>
             THEN <<Group(equipmentColumn, IdsOf(scopes, "Equipment"))>> ELSE <<>>)
            \o (IF IdsOf(scopes, "Person") # <<>>
                THEN <<Group(PERSON_COL, IdsOf(scopes, "Person"))>> ELSE <<>>)
    IN  IF groups = <<>> THEN <<>>
        ELSE <<" ">> \o WHERE \o <<" ">> \o join(groups, <<" ">> \o AND \o <<" ">>)

Selected == query.tag = "Some" /\ query.fn = "get_query_select"

\* C8: for a Read list with an Equipment or Person entry, get_query_select returns
\* " WHERE " and the non-empty groups joined by " AND ", the caller-field group before
\* the person group, ids in first-seen order, neither sorted nor de-duplicated.
PredicateGrouping ==
    (Selected /\ self.kind = "Read" /\ \E i \in 1..Len(self.scopes) : self.scopes[i] # Any)
        => \E column \in {ID, EQUIPMENT_COL} : query.ret = Fragment(column, self.scopes)

\* a list that starts with a Person, repeats it, and holds its Equipment ids in
\* descending order
PredicateGroupingWitness ==
    /\ Selected /\ self.kind = "Read" /\ Len(self.scopes) = 4
    /\ self.scopes[1].tag = "Person" /\ self.scopes[3] = self.scopes[1]
    /\ self.scopes[2].tag = "Equipment" /\ self.scopes[4].tag = "Equipment"
    /\ self.scopes[4].id < self.scopes[2].id

\* C9: both forms return the empty string exactly for ReadAny, WriteAny, Write(_),
\* Create(_) and a Read list that is empty or holds only Any.
EmptyFragment ==
    query.tag = "Some" =>
        (query.ret = <<>> <=>
            \/ self.kind \in {"ReadAny", "WriteAny", "Write", "Create"}
            \/ self.kind = "Read" /\ \A i \in 1..Len(self.scopes) : self.scopes[i] = Any)

\* a Read list of several Any entries compiled to the empty continuation form
EmptyFragmentWitness ==
    /\ query.tag = "Some" /\ query.fn = "get_query_select_without_where"
    /\ self.kind = "Read" /\ Len(self.scopes) >= 2
    /\ \A i \in 1..Len(self.scopes) : self.scopes[i] = Any
    /\ query.ret = <<>>

\* C10 as stated: Equipment scopes are emitted under the fixed column equipment and
\* Person scopes under person, whatever field the caller passes.
ColumnNamingFixed ==
    (Selected /\ self.kind = "Read") => query.ret = Fragment(EQUIPMENT_COL, self.scopes)

\* C10 amended: the Equipment scopes form the caller-field group, named equipment if
\* the caller passes "equipment" and id for every other field; Person scopes are
\* emitted under person whatever the field; the groups come in that order.
ColumnNaming ==
    (Selected /\ self.kind = "Read")
        => query.ret = Fragment(IF query.field = EQUIPMENT_COL THEN EQUIPMENT_COL ELSE ID,
                                self.scopes)

\* the caller passes "person" for a list holding Equipment and Person scopes
ColumnNamingWitness ==
    /\ Selected /\ self.kind = "Read" /\ query.field = PERSON_COL
    /\ IdsOf(self.scopes, "Equipment") # <<>> /\ IdsOf(self.scopes, "Person") # <<>>

(***************************************************************************)
(* What the claims say of the words of a fragment                          *)
(***************************************************************************)
\* pat occurs in s as a substring
Occurs(pat, s) == \E i \in 1..Len(s) : starts_with(SubSeq(s, i, Len(s)), pat)
Occurrences(pat, s) == Cardinality({i \in 1..Len(s) : starts_with(SubSeq(s, i, Len(s)), pat)})

FixedWords == {<<>>, WHERE, AND, <<"I","N">>, ID, EQUIPMENT_COL, PERSON_COL}

\* "(" decimal renderings of i32 values separated by "," ")"
IsIdList(w) ==
    /\ Len(w) >= 3 /\ w[1] = "(" /\ w[Len(w)] = ")"
    /\ LET ids == split(SubSeq(w, 2, Len(w) - 1), ",")
       IN  \A i \in 1..Len(ids) :
              /\ parse_i32(ids[i]).ok
              /\ fmt_i32(parse_i32(ids[i]).val) = ids[i]

\* the call recorded in query, made again with another field
Recall(f) ==
    IF query.fn = "get_query_select" THEN get_query_select(self, f)
    ELSE get_query_select_without_where(self, f)

ContinuationForm ==
    (query.tag = "Some" /\ query.fn = "get_query_select_without_where") =>
        LET fragment == get_query_select(self, query.field)
            introducer == <<" ">> \o WHERE \o <<" ">>
        IN  /\ query.ret = <<>> <=> fragment = <<>>
            /\ fragment # <<>> =>
                  /\ starts_with(fragment, introducer)
                  /\ Occurrences(WHERE, fragment) = 1
                  /\ query.ret = <<" ">> \o AND \o <<" ">>
                                   \o SubSeq(fragment, Len(introducer) + 1, Len(fragment))

\* the continuation form of a list with both groups: " AND " twice
ContinuationFormWitness ==
    /\ query.tag = "Some" /\ query.fn = "get_query_select_without_where"
    /\ self.kind = "Read"
    /\ IdsOf(self.scopes, "Equipment") # <<>> /\ IdsOf(self.scopes, "Person") # <<>>
    /\ Occurrences(AND, query.ret) = 2

\* what a call returns when it runs alone, start to end, on its input
Input(c) ==
    IF c.fn = "parse" THEN [raw |-> c.raw] ELSE [self |-> c.self, field |-> c.field]
Alone(c) ==
    IF c.fn = "parse" THEN parse(c.raw)
    ELSE [val |-> get_query_select(c.self, c.field)]

\* C13: however the steps of the calls in flight interleave, every call that has
\* returned has returned what the same call returns run alone on its input, and
\* two returned calls of the same operation on the same input returned the same.
Stateless ==
    /\ \A i \in 1..Len(calls) : calls[i].ret # None => calls[i].ret = Alone(calls[i])
    /\ \A i, j \in 1..Len(calls) :
          (Input(calls[i]) = Input(calls[j]) /\ calls[i].ret # None /\ calls[j].ret # None)
            => calls[i].ret = calls[j].ret

\* a parse call has returned Ok while another parse call, on another input, is in
\* the middle of its clause loop
StatelessWitness ==
    /\ Len(calls) >= 2
    /\ calls[1].fn = "parse" /\ calls[2].fn = "parse" /\ calls[1].raw # calls[2].raw
    /\ calls[1].ret = None /\ calls[1].perms # <<>>
    /\ calls[1].acc.read_scopes # <<>>
    /\ calls[2].ret # None /\ calls[2].ret.tag = "Ok"

(***************************************************************************)
(* What the claims say of the scopes a permission string lists, read off   *)
(* the clauses of a string every clause of which is well-formed            *)
(***************************************************************************)
\* the scope an item tag[id] names
ScopeOf(it) ==
    LET o == FirstAt(it, "[")
        c == FirstAt(it, "]")
        id == parse_i32(SubSeq(it, o + 1, c - 1)).val
    IN  IF SubSeq(it, 1, o - 1) = EQUIPMENT THEN Equipment(id) ELSE Person(id)

\* the scopes of one READ or WRITE clause, the wildcard clause giving Any
ScopesOfClause(c) ==
    LET o == FirstAt(c, "(")
        items == split(SubSeq(c, o + 1, Len(c)), ",")
    IN  IF items = <<Star>> THEN <<Any>>
        ELSE [i \in 1..Len(items) |-> ScopeOf(items[i])]

\* the scopes of all clauses of one action, in the order they are written
RECURSIVE Listed(_, _)
Listed(cs, action) ==
    IF cs = <<>> THEN <<>>
    ELSE (IF starts_with(Head(cs), action \o <<"(">>) THEN ScopesOfClause(Head(cs)) ELSE <<>>)
         \o Listed(Tail(cs), action)

\* the entries of ws that are not in rs, each once, at its first position
FirstNew(rs, ws) ==
    LET new == {i \in 1..Len(ws) : ~contains(rs, ws[i]) /\ \A j \in 1..(i - 1) : ws[j] # ws[i]}
    IN  [k \in 1..Cardinality(new) |->
            ws[CHOOSE i \in new : Cardinality({j \in new : j <= i}) = k]]

\* C14: when neither list holds the wildcard, the resulting read list is the read
\* scopes of all READ clauses in first-seen order with duplicates kept, followed by
\* each write scope not among them, once, in first-seen order.
ReadListShape ==
    parsed.tag = "Ok" =>
        LET cs == Clauses(perm)
            rs == Listed(cs, READ)
            ws == Listed(cs, WRITE)
        IN  (~contains(rs, Any) /\ ~contains(ws, Any))
                => parsed.read = Read(rs \o FirstNew(rs, ws))

\* two READ clauses repeating a scope, and a WRITE clause naming twice a scope that
\* no READ clause names
ReadListShapeWitness ==
    /\ parsed.tag = "Ok" /\ parsed.read.kind = "Read"
    /\ LET rs == Listed(Clauses(perm), READ)
           ws == Listed(Clauses(perm), WRITE)
       IN  /\ Cardinality(ReadClauses(Clauses(perm))) >= 2
           /\ \E i, j \in 1..Len(rs) : i < j /\ rs[i] = rs[j]
           /\ \E i, j \in 1..Len(ws) : i < j /\ ws[i] = ws[j] /\ ~contains(rs, ws[i])
           /\ Len(parsed.read.scopes) = Len(rs) + 1

\* C15: with a wildcard READ clause and no wildcard WRITE clause the result is
\* ReadAny and Write(ws), ws the write scopes in first-seen order with duplicates
\* kept; whenever the result is a Write list it is ws, entry for entry.
WriteListFrame ==
    parsed.tag = "Ok" =>
        LET cs == Clauses(perm)
            rs == Listed(cs, READ)
            ws == Listed(cs, WRITE)
        IN  /\ (contains(rs, Any) /\ ~contains(ws, Any))
                  => (parsed.read = ReadAny /\ parsed.write = Write(ws))
            /\ ~contains(ws, Any) => parsed.write = Write(ws)
            /\ parsed.write.kind = "Write" => parsed.write.scopes = ws

\* READ(*) next to a WRITE clause that repeats a scope
WriteListFrameWitness ==
    /\ parsed.tag = "Ok" /\ parsed.read = ReadAny /\ parsed.write.kind = "Write"
    /\ contains(Clauses(perm), READ \o <<"(", "*">>)
    /\ \E i, j \in 1..Len(parsed.write.scopes) :
          i < j /\ parsed.write.scopes[i] = parsed.write.scopes[j]

\* the items of a clause that has a '(' and is none of the four literals
ItemsOf(c) == split(SubSeq(c, FirstAt(c, "(") + 1, Len(c)), ",")
InList(c) == c \notin Literals /\ HasChar(c, "(") /\ Len(ItemsOf(c)) >= 2

\* C16: in a successful result a Read or Write list is non-empty and holds no Any;
\* a string with `*` as one item of a comma list is never accepted, and where the
\* clauses and items before that `*` are well-formed the parse returns MissingId.
WildcardUnmixed ==
    /\ parsed.tag = "Ok" =>
          /\ parsed.read.kind \in {"ReadAny", "Read"} /\ parsed.write.kind \in {"WriteAny", "Write"}
          /\ parsed.read.kind = "Read"
                => (parsed.read.scopes # <<>> /\ ~contains(parsed.read.scopes, Any))
          /\ parsed.write.kind = "Write"
                => (parsed.write.scopes # <<>> /\ ~contains(parsed.write.scopes, Any))
    /\ parsed # None =>
          LET cs == Clauses(perm)
          IN  \A i \in 1..Len(cs) :
                InList(cs[i]) =>
                    \A k \in 1..Len(ItemsOf(cs[i])) :
                        ItemsOf(cs[i])[k] = Star =>
                            /\ parsed.tag # "Ok"
                            /\ ((\A j \in 1..(i - 1) : ClauseError(cs[j]) = "ok")
                                  /\ \A m \in 1..(k - 1) :
                                        ItemError(SubSeq(cs[i], 1, FirstAt(cs[i], "(") - 1),
                                                  ItemsOf(cs[i])[m]) = "ok")
                                => parsed = Err(MissingId)

\* `*` written after a well-formed scope in the list of a WRITE clause, the other
\* clauses all present: MissingId
WildcardUnmixedWitness ==
    /\ parsed = Err(MissingId)
    /\ LET cs == Clauses(perm)
       IN  /\ Len(cs) = 3
           /\ starts_with(cs[1], WRITE \o <<"(">>) /\ InList(cs[1])
           /\ ItemsOf(cs[1])[2] = Star
           /\ ItemError(WRITE, ItemsOf(cs[1])[1]) = "ok"

(***************************************************************************)
(* What the claims say of the ids a string of the two-action grammar lists *)
(***************************************************************************)
\* the ids written in the clauses of one action, in the order they are written
RECURSIVE AuthListed(_, _)
AuthListed(cs, action) ==
    IF cs = <<>> THEN <<>>
    ELSE (IF starts_with(Head(cs), action \o <<"(">>) /\ ItemsOf(Head(cs)) # <<Star>>
          THEN [i \in 1..Len(ItemsOf(Head(cs))) |-> parse_i32(ItemsOf(Head(cs))[i]).val]
          ELSE <<>>)
         \o AuthListed(Tail(cs), action)

\* a clause that normalises to the wildcard literal of the action
AuthStar(cs, action) == contains(cs, action \o <<"(", "*">>)

\* C17: in the two-action parser every READ clause adds its ids to the read list and
\* every WRITE clause to the write list, in first-seen order; no later clause
\* discards the ids or the wildcard of an earlier clause of the same action.
ClauseAccumulation ==
    authParsed.tag = "Ok" =>
        LET cs == Clauses(perm)
            rs == AuthListed(cs, READ)
            ws == AuthListed(cs, WRITE)
        IN  /\ AuthStar(cs, WRITE) => authParsed = AuthReadWrite(ReadAny, WriteAny)
            /\ AuthStar(cs, READ) => authParsed.read = ReadAny
            /\ authParsed.read.kind = "Read" =>
                  (Len(authParsed.read.scopes) >= Len(rs)
                      /\ SubSeq(authParsed.read.scopes, 1, Len(rs)) = rs)
            /\ authParsed.write.kind = "Write" => authParsed.write.scopes = ws

\* C18: in the two-action parser ReadAny is returned only for a string with a
\* READ(* or WRITE(* clause and WriteAny only for one with a WRITE(* clause; a
\* numeric id, -1 included, grants neither, and where the result is a list every
\* id written for that action is an entry of it.
WildcardOnlyFromStar ==
    authParsed.tag = "Ok" =>
        LET cs == Clauses(perm)
            rs == AuthListed(cs, READ)
            ws == AuthListed(cs, WRITE)
        IN  /\ authParsed.read = ReadAny => (AuthStar(cs, READ) \/ AuthStar(cs, WRITE))
            /\ authParsed.write = WriteAny => AuthStar(cs, WRITE)
            /\ (~AuthStar(cs, READ) /\ ~AuthStar(cs, WRITE)) =>
                  /\ authParsed.read.kind = "Read"
                  /\ \A i \in 1..Len(rs) : contains(authParsed.read.scopes, rs[i])
            /\ ~AuthStar(cs, WRITE) =>
                  /\ authParsed.write.kind = "Write"
                  /\ \A i \in 1..Len(ws) : contains(authParsed.write.scopes, ws[i])

\* C19: when the extended parser succeeds with read = Read(rs), get_query_select on
\* that permission returns, for every field, a non-empty fragment whose first group
\* lists exactly the Equipment ids of rs and whose person group lists exactly its
\* Person ids; get_todos receives that fragment for the field "id".
ParserCompilerConsistency ==
    (parsed.tag = "Ok" /\ parsed.read.kind = "Read") =>
        /\ \A f \in Fields :
              /\ get_query_select(parsed.read, f) # <<>>
              /\ get_query_select(parsed.read, f)
                    = Fragment(IF f = EQUIPMENT_COL THEN EQUIPMENT_COL ELSE ID,
                               parsed.read.scopes)
        /\ Selected =>
              /\ self = parsed.read
              /\ query.ret # <<>>
              /\ query.ret = Fragment(ID, parsed.read.scopes)

\* get_todos has compiled a parsed read list that holds Equipment and Person
\* scopes, one of them pushed by the repair pass
ParserCompilerConsistencyWitness ==
    /\ Selected /\ parsed.tag = "Ok" /\ parsed.read.kind = "Read"
    /\ IdsOf(parsed.read.scopes, "Equipment") # <<>>
    /\ IdsOf(parsed.read.scopes, "Person") # <<>>
    /\ Len(parsed.read.scopes) > Len(Listed(Clauses(perm), READ))
    /\ Occurs(PERSON_COL \o IN_OPEN, query.ret)

\* the tag is the text before the first '[' and the id the text from there to the
\* first ']': an item that decomposes into a scope kind and an i32
Decomposes(it) ==
    /\ HasChar(it, "[") /\ HasChar(it, "]")
    /\ FirstAt(it, "[") < FirstAt(it, "]")
    /\ SubSeq(it, 1, FirstAt(it, "[") - 1) \in {EQUIPMENT, PERSON}
    /\ parse_i32(SubSeq(it, FirstAt(it, "[") + 1, FirstAt(it, "]") - 1)).ok

\* C20: a READ clause each item of which decomposes so, whatever follows the first
\* ']' of an item, is accepted: alone it leaves the string incomplete, and followed
\* by a WRITE and a CREATE clause the parse succeeds with the read list starting
\* with the scopes its tags and ids name.
ScopeItemDecomposition ==
    parsed # None =>
        LET cs == Clauses(perm)
            items == ItemsOf(cs[1])
        IN  (starts_with(cs[1], READ \o <<"(">>) /\ cs[1] \notin Literals
                /\ \A i \in 1..Len(items) : Decomposes(items[i]))
              => /\ Len(cs) = 1 => parsed = Err(IncompleteSpec)
                 /\ (Supplies(cs, WRITE) /\ Supplies(cs, CREATE) /\ Malformed(cs) = {}) =>
                       /\ parsed.tag = "Ok"
                       /\ ~contains(Listed(cs, READ) \o Listed(cs, WRITE), Any) =>
                             SubSeq(parsed.read.scopes, 1, Len(items))
                                = [i \in 1..Len(items) |-> ScopeOf(items[i])]

\* equipment[1]xyz and person[2][3] accepted as Equipment(1) and Person(2)
ScopeItemDecompositionWitness ==
    /\ parsed.tag = "Ok" /\ parsed.read.kind = "Read"
    /\ ItemsOf(Clauses(perm)[1]) = <<Normalise(E1) \o <<"X","Y","Z">>,
                                     Normalise(item(PERSON, <<"2">>)) \o <<"[","3","]">>>>
    /\ parsed.read.scopes[1] = Equipment(1) /\ parsed.read.scopes[2] = Person(2)
====
